---- MODULE Spec2Model ----
(***************************************************************************)
(* Robot Control API (server.py): FastAPI handlers that drive GPIO/PWM     *)
(* output lines of a wheeled robot.  The model covers the output lines,    *)
(* the five actuation handlers, the shutdown hook and the single event     *)
(* loop that runs them.                                                    *)
(***************************************************************************)
EXTENDS Integers, Sequences, FiniteSets, TLC

(***************************************************************************)
(* Python floats.  A finite float is <<n, d, e>>, the value (n/d) * 10^e,  *)
(* kept in the unique form with d > 0, gcd(n, d) = 1, d coprime to 10 and  *)
(* n not a multiple of 10 (zero is <<0, 1, 0>>).  d = 0 marks the values   *)
(* that are not finite.  Rounding of the mantissa is not modelled; the     *)
(* range of a double is.                                                   *)
(***************************************************************************)
Inf == <<1, 0, 0>>
NegInf == <<-1, 0, 0>>
NaN == <<0, 0, 0>>
\* the value an expression has when evaluating it raised ZeroDivisionError
ZeroDivisionError == <<0, 0, 1>>

Abs(k) == IF k < 0 THEN -k ELSE k

Sign(k) == IF k < 0 THEN -1 ELSE IF k = 0 THEN 0 ELSE 1

RECURSIVE GCD(_, _)
GCD(a, b) == IF b = 0 THEN a ELSE GCD(b, a % b)

RECURSIVE Pow10(_)
Pow10(k) == IF k = 0 THEN 1 ELSE 10 * Pow10(k - 1)

RECURSIVE FixDen(_, _, _)
FixDen(n, d, e) ==
    IF d % 2 = 0 THEN FixDen(n * 5, d \div 2, e - 1)
    ELSE IF d % 5 = 0 THEN FixDen(n * 2, d \div 5, e - 1)
    ELSE <<n, d, e>>

RECURSIVE StripNum(_, _, _)
StripNum(n, d, e) ==
    IF n % 10 = 0 THEN StripNum(n \div 10, d, e + 1) ELSE <<n, d, e>>

\* (n/d) * 10^e in the unique form, for d > 0
Canon(n, d, e) ==
    IF n = 0 THEN <<0, 1, 0>>
    ELSE LET g == GCD(Abs(n), d)
             f == FixDen(Abs(n) \div g, d \div g, e)
             s == StripNum(f[1], f[2], f[3])
         IN  <<Sign(n) * s[1], s[2], s[3]>>

IsFinite(x) == x[2] # 0

\* floor(log10(n/d)) for n, d > 0
RECURSIVE Log10Floor(_, _)
Log10Floor(n, d) ==
    IF n >= 10 * d THEN 1 + Log10Floor(n, 10 * d)
    ELSE IF n < d THEN Log10Floor(10 * n, d) - 1
    ELSE 0

\* |x| > |y| for finite non-zero x and y
MagGT(x, y) ==
    LET lx == x[3] + Log10Floor(Abs(x[1]), x[2])
        ly == y[3] + Log10Floor(Abs(y[1]), y[2])
    IN  IF lx # ly THEN lx > ly
        ELSE IF x[3] >= y[3]
             THEN Abs(x[1]) * y[2] * Pow10(x[3] - y[3]) > Abs(y[1]) * x[2]
             ELSE Abs(x[1]) * y[2] > Abs(y[1]) * x[2] * Pow10(y[3] - x[3])

\* sys.float_info.max, 1.7976931348623157e308, to five digits
DBL_MAX == <<17977, 1, 304>>

\* the result of an arithmetic operation: past the range of a double it is
\* an infinity
Round(x) ==
    IF x[1] # 0 /\ MagGT(x, DBL_MAX)
    THEN (IF x[1] > 0 THEN Inf ELSE NegInf)
    ELSE x

FromInt(k) == Canon(k, 1, 0)

FLtZero(x) == x[1] < 0

FMul(x, y) ==
    IF x = NaN \/ y = NaN THEN NaN
    ELSE IF ~IsFinite(x) \/ ~IsFinite(y)
    THEN (IF x[1] = 0 \/ y[1] = 0 THEN NaN
          ELSE IF Sign(x[1]) = Sign(y[1]) THEN Inf ELSE NegInf)
    ELSE Round(Canon(x[1] * y[1], x[2] * y[2], x[3] + y[3]))

\* x / y: Python raises ZeroDivisionError for a zero divisor
FDiv(x, y) ==
    IF IsFinite(y) /\ y[1] = 0 THEN ZeroDivisionError
    ELSE IF x = NaN \/ y = NaN THEN NaN
    ELSE IF ~IsFinite(x) THEN (IF ~IsFinite(y) THEN NaN
                               ELSE IF Sign(x[1]) = Sign(y[1]) THEN Inf ELSE NegInf)
    ELSE IF ~IsFinite(y) THEN <<0, 1, 0>>
    ELSE Round(Canon(Sign(y[1]) * x[1] * y[2], x[2] * Abs(y[1]), x[3] - y[3]))

\* x + y for finite x and y
FAdd(x, y) ==
    LET e == IF x[3] < y[3] THEN x[3] ELSE y[3]
    IN  Round(Canon(x[1] * Pow10(x[3] - e) * y[2] + y[1] * Pow10(y[3] - e) * x[2],
                    x[2] * y[2], e))


(***************************************************************************)
(* Strings that the code transforms are sequences of one-letter strings.   *)
(***************************************************************************)
UpperCase == <<"A", "B", "C", "D", "E", "F", "G", "H", "I", "J", "K", "L", "M",
               "N", "O", "P", "Q", "R", "S", "T", "U", "V", "W", "X", "Y", "Z">>
LowerCase == <<"a", "b", "c", "d", "e", "f", "g", "h", "i", "j", "k", "l", "m",
               "n", "o", "p", "q", "r", "s", "t", "u", "v", "w", "x", "y", "z">>

\* str.lower()
lower(s) ==
    [k \in DOMAIN s |->
        IF \E u \in DOMAIN UpperCase : UpperCase[u] = s[k]
        THEN LowerCase[CHOOSE u \in DOMAIN UpperCase : UpperCase[u] = s[k]]
        ELSE s[k]]

(***************************************************************************)
(* Compiled-in parameters                                                  *)
(***************************************************************************)
LOW == 0
HIGH == 1
WHEEL_DIAMETER == Canon(15, 100, 0)
MAX_RPM == 50
\* math.pi, as 355/113
PI == <<355, 113, 0>>
SERVO_ANGLES ==
    (<<"l", "e", "f", "t">> :> 60)
    @@ (<<"r", "i", "g", "h", "t">> :> 120)
    @@ (<<"s", "t", "r", "a", "i", "g", "h", "t">> :> 90)
\* the settling time both servo functions sleep for, 0.5 s
SERVO_SETTLE == Canon(5, 10, 0)
\* the longest time.sleep accepts: 2^63 ns, 9.2234e9 s
SLEEP_MAX == <<92234, 1, 5>>

(***************************************************************************)
(* Bounds and the inputs the request models accept                         *)
(***************************************************************************)
\* requests that can wait for the event loop at the same time
MaxPending == 2
\* handler activations the model keeps apart
MaxTasks == 2
\* hardware write faults in one behaviour of SpecFault
MaxFaults == 1
Tasks == 1..MaxTasks
\* MotorParams.speed: int, 0 <= speed <= 100
Speeds == {0, 1, 100}
\* MotorParams.distance: any float (-1.0, 0.5, 1e308)
Distances == {Canon(-1, 1, 0), Canon(1, 2, 0), <<1, 1, 308>>}
\* the path parameter of /camera/{direction}: any string
Directions == {<<"l", "e", "f", "t">>, <<"L", "E", "F", "T">>,
               <<"R", "i", "g", "h", "t">>, <<"u", "p">>}
\* SprayAngle.angle: float, 0 <= angle <= 180
Angles == {FromInt(0), FromInt(180)}
\* the query parameter of /activate_spray: any float (-1.0, the default 5.0)
Durations == {Canon(-1, 1, 0), FromInt(5)}

VARIABLES
    out,          \* the level or duty cycle last written to each output line
    pwm_started,  \* the four PWM objects are started and not stopped
    gpio,         \* "setup" after GPIO.setup, "cleaned" after GPIO.cleanup
    pending,      \* requests received that wait for the event loop
    task,         \* the handlers: where each is, its locals, its response
    shutdown,     \* "running", "requested" (exit signal seen), "done", "failed"
    exit_seen,    \* what the exit signal met: "idle", "relay_on", "relay_off"
    last_camera,  \* the request answered last, if the camera was rotated for it:
                  \* its direction, its writes, its status in lower case
    faults        \* hardware write faults that can still happen

vars == <<out, pwm_started, gpio, pending, task, shutdown, exit_seen, last_camera, faults>>

ZERO == FromInt(0)

NoTask ==
    [pc |-> "idle", route |-> "", direction |-> <<>>, distance |-> ZERO,
     speed |-> 0, angle |-> ZERO, duration |-> ZERO,
     local_speed |-> 0, time |-> ZERO, writes |-> <<>>, code |-> 0, status |-> <<"">>,
     before |-> <<>>]

\* lines 41-58: the state of the lines once the module is imported
Init ==
    /\ out = [DIR1 |-> LOW, DIR2 |-> LOW, pwm1 |-> 0, pwm2 |-> 0,
              camera_servo_pwm |-> ZERO, spray_servo_pwm |-> ZERO,
              RELAY_PIN |-> HIGH]
    /\ pwm_started = TRUE
    /\ gpio = "setup"
    /\ pending = 0
    /\ task = [i \in Tasks |-> NoTask]
    /\ shutdown = "running"
    /\ exit_seen = ""
    /\ last_camera = <<>>
    /\ faults = 0

InitFault ==
    /\ out = [DIR1 |-> LOW, DIR2 |-> LOW, pwm1 |-> 0, pwm2 |-> 0,
              camera_servo_pwm |-> ZERO, spray_servo_pwm |-> ZERO,
              RELAY_PIN |-> HIGH]
    /\ pwm_started = TRUE
    /\ gpio = "setup"
    /\ pending = 0
    /\ task = [i \in Tasks |-> NoTask]
    /\ shutdown = "running"
    /\ exit_seen = ""
    /\ last_camera = <<>>
    /\ faults = MaxFaults

(***************************************************************************)
(* Hardware writes.  A handler segment is a sequence of writes <<line,     *)
(* value>>; k = 0 when none of them raises, otherwise the k-th raises and  *)
(* the writes before it have been made.                                    *)
(***************************************************************************)
FaultAt(n) == IF faults > 0 THEN 0..n ELSE {0}

Made(ws, k) == IF k = 0 THEN ws ELSE SubSeq(ws, 1, k - 1)

RECURSIVE ApplyWrites(_, _)
ApplyWrites(o, ws) ==
    IF ws = <<>> THEN o
    ELSE ApplyWrites([o EXCEPT ![ws[1][1]] = ws[1][2]], Tail(ws))

\* time.sleep(t): the exception it raises instead of sleeping, or "none"
SleepError(t) ==
    IF t = NaN THEN "ValueError"
    ELSE IF ~IsFinite(t) THEN (IF t[1] < 0 THEN "ValueError" ELSE "OverflowError")
    ELSE IF FLtZero(t) THEN "ValueError"
    ELSE IF t[1] # 0 /\ MagGT(t, SLEEP_MAX) THEN "OverflowError"
    ELSE "none"

\* handlers run by a pool of threads: one can start while another runs
EventLoopFree_threadpool == TRUE

\* the handlers are coroutines of one event loop and never await: a handler
\* starts only when no other handler is between its first statement and
\* its return
EventLoopFree == \A j \in Tasks : task[j].pc = "idle"

InFlight(i) == task[i].pc \in {"sleep", "return"}

\* a client sends a request; it waits for the event loop
Submit ==
    /\ shutdown = "running"
    /\ pending < MaxPending
    /\ pending' = pending + 1
    /\ UNCHANGED <<out, pwm_started, gpio, task, shutdown, exit_seen, last_camera,
                   faults>>

\* the handler of request i starts: what every handler action begins with
\* (i is the first activation record not in use)
Starts(i) ==
    /\ shutdown \in {"running", "requested"}
    /\ pending > 0
    /\ task[i].pc = "idle"
    /\ \A j \in Tasks : j < i => task[j].pc # "idle"
    /\ EventLoopFree
    /\ pending' = pending - 1

\* the writes ws are attempted, the k-th raising when k > 0
Writes(ws, k) ==
    /\ out' = ApplyWrites(out, Made(ws, k))
    /\ faults' = IF k = 0 THEN faults ELSE faults - 1


\* request i is handled: the first statement of its handler has run
Started(i, route, ws, k) ==
    [task[i] EXCEPT !.route = route, !.before = out, !.writes = Made(ws, k)]

\* return value -> {"status": value}, sent with status 200
Returns(t, status) == [t EXCEPT !.pc = "return", !.code = 200, !.status = status]

\* the handler blocks in time.sleep(time)
Sleeps(t, time) == [t EXCEPT !.pc = "sleep", !.time = time]

(***************************************************************************)
(* move_motor, called by /forward, /backward, /left and /right             *)
(***************************************************************************)
MoveDirections == {"forward", "backward", "left", "right"}

\* lines 75-90: the direction bits
DirectionWrites(direction) ==
    CASE direction = "forward"  -> <<<<"DIR1", LOW>>, <<"DIR2", LOW>>>>
      [] direction = "backward" -> <<<<"DIR1", HIGH>>, <<"DIR2", HIGH>>>>
      [] direction = "left"     -> <<<<"DIR1", HIGH>>, <<"DIR2", LOW>>>>
      [] direction = "right"    -> <<<<"DIR1", LOW>>, <<"DIR2", HIGH>>>>
      [] OTHER                  -> <<>>

\* the turning speed without the reduction
TurnSpeed_full(speed) == speed

\* lines 84, 88: speed = speed // 2
TurnSpeed(speed) == speed \div 2

\* the local speed after lines 75-88
LocalSpeed(direction, speed) ==
    IF direction \in {"left", "right"} THEN TurnSpeed(speed) ELSE speed

\* lines 96-103: time_needed for the local speed
TimeNeeded(distance, speed) ==
    IF speed <= 0 THEN ZERO
    ELSE LET circumference == FMul(PI, WHEEL_DIAMETER)
             rpm == FMul(FromInt(MAX_RPM), FDiv(FromInt(speed), FromInt(100)))
             rps == FDiv(rpm, FromInt(60))
             linear_speed == FMul(circumference, rps)
         IN  FDiv(distance, linear_speed)

\* lines 74-105: up to the call of time.sleep
move_motor(i, direction, distance, speed, k) ==
    LET local == LocalSpeed(direction, speed)
        ws == DirectionWrites(direction)
              \o <<<<"pwm1", local>>, <<"pwm2", local>>>>
        time_needed == TimeNeeded(distance, local)
        t == [Started(i, direction, ws, k) EXCEPT
                 !.distance = distance, !.speed = speed, !.local_speed = local]
    IN  /\ Starts(i)
        /\ IF direction \notin MoveDirections
           THEN /\ task' = [task EXCEPT ![i] =
                               Returns([t EXCEPT !.writes = <<>>],
                                       <<"Invalid direction">>)]
                /\ UNCHANGED <<out, faults>>
           ELSE /\ Writes(ws, k)
                /\ task' = [task EXCEPT ![i] =
                     IF k # 0 THEN Returns(t, <<"Error", "RuntimeError">>)
                     ELSE IF time_needed = ZeroDivisionError
                     THEN Returns(t, <<"Error", "ZeroDivisionError">>)
                     ELSE IF SleepError(time_needed) # "none"
                     THEN Returns([t EXCEPT !.time = time_needed],
                                  <<"Error", SleepError(time_needed)>>)
                     ELSE Sleeps(t, time_needed)]
        /\ UNCHANGED <<pwm_started, gpio, shutdown, exit_seen, last_camera>>

\* lines 107-112: after time.sleep
move_motor_wake(i, k) ==
    LET ws == <<<<"pwm1", 0>>, <<"pwm2", 0>>>>
        t == [task[i] EXCEPT !.writes = @ \o Made(ws, k)]
    IN  /\ task[i].pc = "sleep"
        /\ task[i].route \in MoveDirections
        /\ Writes(ws, k)
        /\ UNCHANGED pending
        /\ task' = [task EXCEPT ![i] =
             IF k # 0 THEN Returns(t, <<"Error", "RuntimeError">>)
             ELSE Returns(t, <<"Moved", t.route, t.distance, t.local_speed>>)]
        /\ UNCHANGED <<pwm_started, gpio, shutdown, exit_seen, last_camera>>

(***************************************************************************)
(* /stop                                                                   *)
(***************************************************************************)
\* /stop with the second write forgotten
StopWrites_left_only == <<<<"pwm1", 0>>>>

\* lines 176-177
StopWrites == <<<<"pwm1", 0>>, <<"pwm2", 0>>>>

\* lines 174-178: no try; an exception leaves the handler and the framework
\* answers 500
stop_motor(i, k) ==
    LET ws == StopWrites
        t == Started(i, "stop", ws, k)
    IN  /\ Starts(i)
        /\ Writes(ws, k)
        /\ task' = [task EXCEPT ![i] =
             IF k # 0
             THEN [t EXCEPT !.pc = "return", !.code = 500,
                            !.status = <<"Internal Server Error">>]
             ELSE Returns(t, <<"Motor stopped">>)]
        /\ UNCHANGED <<pwm_started, gpio, shutdown, exit_seen, last_camera>>

(***************************************************************************)
(* rotate_camera, called by /camera/{direction}                            *)
(***************************************************************************)
\* lines 122, 134: duty = 2.5 + (angle / 18)
Duty(angle) == FAdd(Canon(25, 10, 0), FDiv(angle, FromInt(18)))

\* the key without the conversion to lower case
AngleKey_as_given(direction) == direction

\* line 118: the key looked up in SERVO_ANGLES
AngleKey(direction) == lower(direction)

\* a lookup that falls back to straight ahead for an unknown key
LookupAngle_default(key) ==
    IF key \in DOMAIN SERVO_ANGLES THEN <<SERVO_ANGLES[key]>> ELSE <<90>>

\* line 118: SERVO_ANGLES.get(key); <<>> is None
LookupAngle(key) ==
    IF key \in DOMAIN SERVO_ANGLES THEN <<SERVO_ANGLES[key]>> ELSE <<>>

\* lines 117-124: up to the call of time.sleep
rotate_camera(i, direction, k) ==
    LET angle == LookupAngle(AngleKey(direction))
        ws == IF angle = <<>> THEN <<>>
              ELSE <<<<"camera_servo_pwm", Duty(FromInt(angle[1]))>>>>
        t == [Started(i, "camera", ws, k) EXCEPT
                 !.direction = direction, !.angle = angle]
    IN  /\ Starts(i)
        /\ IF angle = <<>>
           THEN /\ task' = [task EXCEPT ![i] =
                               Returns(t, <<"Invalid direction", direction>>)]
                /\ UNCHANGED <<out, faults>>
           ELSE /\ Writes(ws, k)
                /\ task' = [task EXCEPT ![i] =
                     IF k # 0 THEN Returns(t, <<"Camera error", "RuntimeError">>)
                     ELSE Sleeps(t, SERVO_SETTLE)]
        /\ UNCHANGED <<pwm_started, gpio, shutdown, exit_seen, last_camera>>

\* lines 125-128: after time.sleep
rotate_camera_wake(i, k) ==
    LET ws == <<<<"camera_servo_pwm", ZERO>>>>
        t == [task[i] EXCEPT !.writes = @ \o Made(ws, k)]
    IN  /\ task[i].pc = "sleep"
        /\ task[i].route = "camera"
        /\ Writes(ws, k)
        /\ UNCHANGED pending
        /\ task' = [task EXCEPT ![i] =
             IF k # 0 THEN Returns(t, <<"Camera error", "RuntimeError">>)
             ELSE Returns(t, <<"Camera rotated", t.direction, t.angle[1]>>)]
        /\ UNCHANGED <<pwm_started, gpio, shutdown, exit_seen, last_camera>>

(***************************************************************************)
(* adjust_spray_angle, called by /turn_spray                               *)
(***************************************************************************)
\* lines 133-136: up to the call of time.sleep
adjust_spray_angle(i, angle, k) ==
    LET ws == <<<<"spray_servo_pwm", Duty(angle)>>>>
        t == [Started(i, "turn_spray", ws, k) EXCEPT !.angle = angle]
    IN  /\ Starts(i)
        /\ Writes(ws, k)
        /\ task' = [task EXCEPT ![i] =
             IF k # 0 THEN Returns(t, <<"Spray angle error", "RuntimeError">>)
             ELSE Sleeps(t, SERVO_SETTLE)]
        /\ UNCHANGED <<pwm_started, gpio, shutdown, exit_seen, last_camera>>

\* lines 137-140: after time.sleep
adjust_spray_angle_wake(i, k) ==
    LET ws == <<<<"spray_servo_pwm", ZERO>>>>
        t == [task[i] EXCEPT !.writes = @ \o Made(ws, k)]
    IN  /\ task[i].pc = "sleep"
        /\ task[i].route = "turn_spray"
        /\ Writes(ws, k)
        /\ UNCHANGED pending
        /\ task' = [task EXCEPT ![i] =
             IF k # 0 THEN Returns(t, <<"Spray angle error", "RuntimeError">>)
             ELSE Returns(t, <<"Spray nozzle rotated", t.angle>>)]
        /\ UNCHANGED <<pwm_started, gpio, shutdown, exit_seen, last_camera>>

(***************************************************************************)
(* activate_spray, called by /activate_spray                               *)
(***************************************************************************)
\* lines 144-146: up to the call of time.sleep
activate_spray(i, duration, k) ==
    LET ws == <<<<"RELAY_PIN", LOW>>>>
        t == [Started(i, "activate_spray", ws, k) EXCEPT !.duration = duration]
    IN  /\ Starts(i)
        /\ Writes(ws, k)
        /\ task' = [task EXCEPT ![i] =
             IF k # 0
             THEN Returns(t, <<"Spray activation error", "RuntimeError">>)
             ELSE IF SleepError(duration) # "none"
             THEN Returns([t EXCEPT !.time = duration],
                          <<"Spray activation error", SleepError(duration)>>)
             ELSE Sleeps(t, duration)]
        /\ UNCHANGED <<pwm_started, gpio, shutdown, exit_seen, last_camera>>

\* lines 147-150: after time.sleep
activate_spray_wake(i, k) ==
    LET ws == <<<<"RELAY_PIN", HIGH>>>>
        t == [task[i] EXCEPT !.writes = @ \o Made(ws, k)]
    IN  /\ task[i].pc = "sleep"
        /\ task[i].route = "activate_spray"
        /\ Writes(ws, k)
        /\ UNCHANGED pending
        /\ task' = [task EXCEPT ![i] =
             IF k # 0
             THEN Returns(t, <<"Spray activation error", "RuntimeError">>)
             ELSE Returns(t, <<"Spray activated", t.duration>>)]
        /\ UNCHANGED <<pwm_started, gpio, shutdown, exit_seen, last_camera>>

(***************************************************************************)
(* The server around the handlers                                          *)
(***************************************************************************)
\* the status text with its direction in lower case
NormalStatus(status) == <<status[1], lower(status[2]), status[3]>>

\* the response of request i is sent and the request is over
Respond(i) ==
    /\ task[i].pc = "return"
    /\ task' = [task EXCEPT ![i] = NoTask]
    /\ last_camera' =
         IF task[i].route = "camera" /\ task[i].status[1] = "Camera rotated"
         THEN <<task[i].direction, task[i].writes, NormalStatus(task[i].status)>>
         ELSE <<>>
    /\ UNCHANGED <<out, pwm_started, gpio, pending, shutdown, exit_seen, faults>>

\* the process is told to exit (SIGINT, SIGTERM) at any moment; the server
\* only notes it
handle_exit ==
    /\ shutdown = "running"
    /\ shutdown' = "requested"
    /\ exit_seen' = IF \A j \in Tasks : ~InFlight(j) THEN "idle"
                    ELSE IF out.RELAY_PIN = LOW THEN "relay_on" ELSE "relay_off"
    /\ UNCHANGED <<out, pwm_started, gpio, pending, task, last_camera, faults>>

\* the shutdown hook without line 204
cleanup_lines_no_relay(o) == o

\* line 204: GPIO.output(RELAY_PIN, GPIO.HIGH)
cleanup_lines(o) == [o EXCEPT !.RELAY_PIN = HIGH]

\* lines 198-205: the shutdown hook, run by the event loop once every open
\* request is over; k = 1 when line 204 raises
cleanup(k) ==
    /\ shutdown = "requested"
    /\ pending = 0
    /\ \A j \in Tasks : task[j].pc = "idle"
    /\ pwm_started' = FALSE
    /\ IF k = 0
       THEN /\ out' = cleanup_lines(out)
            /\ gpio' = "cleaned"
            /\ shutdown' = "done"
            /\ UNCHANGED faults
       ELSE /\ shutdown' = "failed"
            /\ faults' = faults - 1
            /\ UNCHANGED <<out, gpio>>
    /\ UNCHANGED <<pending, task, exit_seen, last_camera>>

Next ==
    \/ Submit
    \/ \E i \in Tasks, direction \in MoveDirections, distance \in Distances,
          speed \in Speeds, k \in FaultAt(4) :
          move_motor(i, direction, distance, speed, k)
    \/ \E i \in Tasks, k \in FaultAt(2) : move_motor_wake(i, k)
    \/ \E i \in Tasks, k \in FaultAt(2) : stop_motor(i, k)
    \/ \E i \in Tasks, direction \in Directions, k \in FaultAt(1) :
          rotate_camera(i, direction, k)
    \/ \E i \in Tasks, k \in FaultAt(1) : rotate_camera_wake(i, k)
    \/ \E i \in Tasks, angle \in Angles, k \in FaultAt(1) :
          adjust_spray_angle(i, angle, k)
    \/ \E i \in Tasks, k \in FaultAt(1) : adjust_spray_angle_wake(i, k)
    \/ \E i \in Tasks, duration \in Durations, k \in FaultAt(1) :
          activate_spray(i, duration, k)
    \/ \E i \in Tasks, k \in FaultAt(1) : activate_spray_wake(i, k)
    \/ \E i \in Tasks : Respond(i)
    \/ handle_exit
    \/ \E k \in FaultAt(1) : cleanup(k)

\* no hardware write raises
Spec == Init /\ [][Next]_vars

\* hardware writes can raise
SpecFault == InitFault /\ [][Next]_vars


(***************************************************************************)
(* Properties                                                              *)
(***************************************************************************)
AtReturn(i) == task[i].pc = "return"

Moving(i) == InFlight(i) /\ task[i].route \in MoveDirections

\* C1: while activate_spray blocks the relay is energized, and when it
\* returns the relay is de-energized, for every duration the route accepts.
C1_RelayOffWhenSprayReturns ==
    \A i \in Tasks :
        task[i].route = "activate_spray" =>
            /\ task[i].pc = "sleep" => out.RELAY_PIN = LOW
            /\ AtReturn(i) => out.RELAY_PIN = HIGH

\* C2: once the shutdown hook has run the relay is de-energized, and no
\* handler is left that could energize it again.
C2_ShutdownLeavesRelayOff ==
    shutdown = "done" =>
        /\ out.RELAY_PIN = HIGH
        /\ pending = 0
        /\ \A i \in Tasks : task[i].pc = "idle"

\* the exit signal arrived while a handler had the relay energized, and the
\* shutdown hook has run since
C2_Witness ==
    /\ shutdown = "done"
    /\ exit_seen = "relay_on"
    /\ out.RELAY_PIN = HIGH

\* C3: at most one handler is between its first statement and its return,
\* whatever requests wait, and the shutdown hook runs in none.
C3_OneCommandAtATime ==
    /\ Cardinality({i \in Tasks : InFlight(i)}) <= 1
    /\ shutdown \in {"done", "failed"} => \A i \in Tasks : ~InFlight(i)

\* a handler blocks in its delay while another request waits
C3_Witness ==
    /\ pending >= 1
    /\ \E i \in Tasks : task[i].pc = "sleep" /\ task[i].route = "forward"

\* C4: when /stop returns both motor duty cycles are 0 and every other line
\* has the value it had when /stop started.
C4_StopZeroesOnlyTheMotors ==
    \A i \in Tasks :
        (task[i].route = "stop" /\ AtReturn(i) /\ task[i].code = 200) =>
            /\ out.pwm1 = 0
            /\ out.pwm2 = 0
            /\ out = [task[i].before EXCEPT !.pwm1 = 0, !.pwm2 = 0]

\* /stop has returned after starting with both motors driven backward
C4_Witness ==
    \E i \in Tasks :
        /\ task[i].route = "stop" /\ AtReturn(i) /\ task[i].code = 200
        /\ task[i].before.pwm1 > 0 /\ task[i].before.pwm2 > 0
        /\ task[i].before.DIR1 = HIGH /\ task[i].before.DIR2 = HIGH
        /\ out.pwm1 = 0 /\ out.pwm2 = 0

\* C5: for speed in 0..100 and distance >= 0 the delay move_motor computes
\* is finite and not negative, and it is 0 when the applied speed is 0.
C5_DelayFiniteAndNonNegative ==
    \A i \in Tasks :
        (Moving(i) /\ ~FLtZero(task[i].distance)) =>
            /\ IsFinite(task[i].time)
            /\ ~FLtZero(task[i].time)
            /\ task[i].local_speed = 0 => task[i].time = ZERO

\* C6: move_motor writes one duty cycle to both motor lines: at most half
\* the requested speed for left and right, the requested speed for forward
\* and backward.
C6_TurnsAtHalfSpeed ==
    \A i \in Tasks :
        Moving(i) =>
            /\ Len(task[i].writes) >= 4
            /\ task[i].writes[3][1] = "pwm1"
            /\ task[i].writes[4][1] = "pwm2"
            /\ task[i].writes[3][2] = task[i].writes[4][2]
            /\ task[i].route \in {"left", "right"} =>
                   2 * task[i].writes[3][2] <= task[i].speed
            /\ task[i].route \in {"forward", "backward"} =>
                   task[i].writes[3][2] = task[i].speed
            /\ task[i].pc = "sleep" =>
                   /\ out.pwm1 = task[i].writes[3][2]
                   /\ out.pwm2 = task[i].writes[3][2]

\* a turn blocks with both motors at half of a requested speed of 100
C6_Witness ==
    \E i \in Tasks :
        /\ task[i].route = "left" /\ task[i].pc = "sleep"
        /\ task[i].speed = 100
        /\ out.pwm1 = 50 /\ out.pwm2 = 50

ValidNames == {<<"l", "e", "f", "t">>, <<"r", "i", "g", "h", "t">>,
               <<"s", "t", "r", "a", "i", "g", "h", "t">>}

\* C7: rotate_camera with a direction that is none of left, right and
\* straight in lower case returns the error text and writes no line.
C7_UnknownDirectionWritesNothing ==
    \A i \in Tasks :
        (task[i].route = "camera" /\ InFlight(i)
         /\ lower(task[i].direction) \notin ValidNames) =>
            /\ AtReturn(i)
            /\ task[i].status = <<"Invalid direction", task[i].direction>>
            /\ task[i].code = 200
            /\ task[i].writes = <<>>
            /\ out = task[i].before

\* /camera/up has returned
C7_Witness ==
    \E i \in Tasks :
        /\ task[i].route = "camera" /\ AtReturn(i)
        /\ task[i].direction = <<"u", "p">>
        /\ task[i].status[1] = "Invalid direction"

\* the duty cycle 2.5 + angle/18 of each named direction
ExpectedDuty ==
    (<<"l", "e", "f", "t">> :> <<175, 3, -1>>)
    @@ (<<"r", "i", "g", "h", "t">> :> <<275, 3, -1>>)
    @@ (<<"s", "t", "r", "a", "i", "g", "h", "t">> :> <<75, 1, -1>>)

\* C8: rotate_camera with a direction that names left, right or straight in
\* any letter case writes the duty cycle of that direction and then 0 to the
\* camera servo; two directions that differ only in case give the same
\* writes and, in lower case, the same status text.
C8_DirectionCaseInsensitive ==
    \A i \in Tasks :
        (task[i].route = "camera" /\ AtReturn(i)
         /\ lower(task[i].direction) \in ValidNames) =>
            /\ task[i].status[1] = "Camera rotated"
            /\ task[i].writes =
                   <<<<"camera_servo_pwm", ExpectedDuty[lower(task[i].direction)]>>,
                     <<"camera_servo_pwm", ZERO>>>>
            /\ (last_camera # <<>>
                /\ lower(last_camera[1]) = lower(task[i].direction)) =>
                   /\ task[i].writes = last_camera[2]
                   /\ NormalStatus(task[i].status) = last_camera[3]

\* /camera/LEFT has returned right after /camera/left was answered
C8_Witness ==
    \E i \in Tasks :
        /\ task[i].route = "camera" /\ AtReturn(i)
        /\ task[i].direction = <<"L", "E", "F", "T">>
        /\ last_camera # <<>>
        /\ last_camera[1] = <<"l", "e", "f", "t">>
        /\ task[i].writes = last_camera[2]

\* C9: a hardware write that raises in a handler is answered with status 200
\* and a status text.
C9_FaultsAnsweredWith200 ==
    \A i \in Tasks : AtReturn(i) => task[i].code = 200

\* C10: when no handler is in flight both motor duty cycles and both servo
\* duty cycles are 0.
C10_QuiescentWhenIdle ==
    (\A i \in Tasks : ~InFlight(i)) =>
        /\ out.pwm1 = 0
        /\ out.pwm2 = 0
        /\ out.camera_servo_pwm = ZERO
        /\ out.spray_servo_pwm = ZERO

====
